---- MODULE Spec2Model ----
(***************************************************************************)
(* State-machine model of the ZubrSDK websocket client                     *)
(* (src/zubr/__init__.py): request ids, the subscription and pending-call  *)
(* registries, the delayed-request queue, the login handshake and the      *)
(* inbound message router.  The websocket transport is the environment:    *)
(* it opens, closes, delivers frames and records what is handed to it.     *)
(***************************************************************************)
EXTENDS Integers, Sequences, FiniteSets, TLC

\* ---------------------------------------------------------------- bounds
MaxId == 3          \* requests created per client instance
MaxOpens == 2       \* on_open events (connections) per client instance
MaxMantissa == 12   \* decimals: mantissas -MaxMantissa..MaxMantissa
MaxExponent == 2    \* decimals: exponents -MaxExponent..MaxExponent
MaxDepth == 2       \* nesting depth of the structures given to _decode_response

\* ------------------------------------------------------ program constants
CHANNEL == 1
RPC == 9

None == "None"
Channels == {"orders", "orderbook"}
Callbacks == {"cb1", "cb2"}
OnLoginCallback == "_on_login"
LoginMethod == "loginSessionByApiToken"

\* ------------------------------------------------------------ JSON values
JInt(n) == [t |-> "int", v |-> n]
JStr(s) == [t |-> "str", v |-> s]
JDict(f) == [t |-> "dict", v |-> f]
JList(q) == [t |-> "list", v |-> q]
JNone == [t |-> "none", v |-> "None"]

\* Python truthiness of a value
Truthy(x) ==
    ~ \/ x.t = "none"
      \/ x.t = "str" /\ x.v = ""
      \/ x.t = "int" /\ x.v = 0
      \/ x.t \in {"dict", "list"} /\ DOMAIN x.v = {}

IsDict(x) == x.t = "dict"

VARIABLES
    api_key, api_secret,        \* credentials given to the constructor
    logged_in,                  \* self._logged_in
    message_id,                 \* self._message_id
    channel_callbacks,          \* self._channel_callbacks
    message_callbacks,          \* self._message_callbacks
    error_callback,             \* self._error_callback
    default_callback,           \* self._default_callback
    delayed_requests,           \* self._delayed_requests
    ws_open,                    \* self._ws_open
    connected,                  \* transport: the socket is really open
    wire,                       \* transport: frames handed to ws_app.send
    epoch,                      \* history: number of on_open events so far
    login_epoch,                \* history: epoch of the last successful login
    login_mark,                 \* history: Len(wire) when the queue was last released
    invoked,                    \* history: callback invocations per request id
    ev,                         \* history: the last operation and its outcome
    argument,                   \* codec: the value a codec function is given
    returned                    \* codec: the value it returned

vars == <<api_key, api_secret, logged_in, message_id, channel_callbacks,
          message_callbacks, error_callback, default_callback,
          delayed_requests, ws_open, connected, wire, epoch, login_epoch,
          login_mark, invoked, ev, argument, returned>>

\* the fields of the client object itself
sdk == <<api_key, api_secret, logged_in, message_id, channel_callbacks,
         message_callbacks, error_callback, default_callback,
         delayed_requests, ws_open>>

NoMsg == JStr("")
NoCall == [kind |-> None, fn |-> None, arg |-> NoMsg]

\* The object state the methods read and write, as one value.
Self ==
    [logged_in |-> logged_in, message_id |-> message_id,
     channel_callbacks |-> channel_callbacks,
     message_callbacks |-> message_callbacks,
     error_callback |-> error_callback,
     delayed_requests |-> delayed_requests, ws_open |-> ws_open,
     connected |-> connected, wire |-> wire, epoch |-> epoch,
     login_epoch |-> login_epoch, login_mark |-> login_mark,
     invoked |-> invoked,
     raised |-> None, code |-> JNone, called |-> NoCall]

Put(f, k, val) == [x \in DOMAIN f \cup {k} |-> IF x = k THEN val ELSE f[x]]
\* mutant: the entry is read and left in the registry (get for pop)
Pop_Keep(f, k) == f

Pop(f, k) == [x \in DOMAIN f \ {k} |-> f[x]]

Raise(s, exc) == [s EXCEPT !.raised = exc]

\* raise ZubrSDKError(message, code=code)
RaiseCode(s, exc, code) == [s EXCEPT !.raised = exc, !.code = code]

\* mapping.get(key): the value, or None when the key is absent
Get(mapping, key) ==
    IF key \in DOMAIN mapping.v THEN mapping.v[key] ELSE JNone

HasCredentials == api_key # None /\ api_secret # None

\* The session state of the design (Disconnected, Open/Unauthenticated,
\* Open/Authenticated), read off the transport and the login history.
Session(s) ==
    IF ~s.connected THEN "Disconnected"
    ELSE IF ~HasCredentials THEN "Open"
    ELSE IF s.login_epoch = s.epoch THEN "Open/Authenticated"
    ELSE "Open/Unauthenticated"

\* self._ws_app.send(request): the frame is handed to the transport.
WsAppSend(s, request) ==
    [s EXCEPT !.wire = Append(@, [frame |-> request, sess |-> Session(s)])]

\* json.dumps(request): the serialized frame, fields in insertion order.
Dumps(request) == <<request.id, request.method, request.params>>
FrameId(frame) == frame[1]
FrameMethod(frame) == frame[2]
FrameParams(frame) == frame[3]

RECURSIVE SendAll(_, _)
SendAll(s, requests) ==
    IF requests = <<>> THEN s
    ELSE SendAll(WsAppSend(s, Head(requests)), Tail(requests))

Reverse(q) == [i \in DOMAIN q |-> q[Len(q) + 1 - i]]

\* mutant: the queue is drained from its newest entry
SendDelayedRequests_Reversed(s) ==
    LET delayed == s.delayed_requests
        s1 == [s EXCEPT !.delayed_requests = <<>>,
                        !.login_mark = Len(s.wire)]
    IN  SendAll(s1, Reverse(delayed))

SendDelayedRequests(s) ==
    LET delayed == s.delayed_requests
        s1 == [s EXCEPT !.delayed_requests = <<>>,
                        !.login_mark = Len(s.wire)]
    IN  SendAll(s1, delayed)

CreateRequest(s, method, params) ==
    LET s1 == [s EXCEPT !.message_id = @ + 1]
    IN  [st |-> s1,
         request |-> [id |-> s1.message_id, method |-> method,
                      params |-> params]]

Send(s, request) ==
    LET r == Dumps(request)
    IN  IF s.ws_open
        THEN WsAppSend(s, r)
        ELSE [s EXCEPT !.delayed_requests = Append(@, r)]

\* mutant: no check of the registry, the new callback replaces the old one
Subscribe_NoGuard(s, channel, callback) ==
    LET s1 == [s EXCEPT !.channel_callbacks = Put(@, channel, callback)]
        cr == CreateRequest(s1, CHANNEL, JDict("channel" :> JStr(channel)))
    IN  Send(cr.st, cr.request)

Subscribe(s, channel, callback) ==
    IF channel \in DOMAIN s.channel_callbacks
    THEN Raise(s, "AlreadySubscribed")
    ELSE LET s1 == [s EXCEPT !.channel_callbacks = Put(@, channel, callback)]
             cr == CreateRequest(s1, CHANNEL,
                                JDict("channel" :> JStr(channel)))
         IN  Send(cr.st, cr.request)

RECURSIVE SubscribeEach(_, _, _)
\* for channel, callback in channel_callbacks.items(): self._subscribe(...)
\* (an exception ends the loop)
SubscribeEach(s, order, callbacks) ==
    IF order = <<>> \/ s.raised # None THEN s
    ELSE SubscribeEach(Subscribe(s, Head(order), callbacks[Head(order)]),
                       Tail(order), callbacks)

\* mutant: the registry is not emptied before the channels are replayed
Resubscribe_KeepRegistry(s, order) ==
    LET callbacks == s.channel_callbacks
    IN  SubscribeEach(s, order, callbacks)

\* order: the sequence in which the dict hands out its channels
Resubscribe(s, order) ==
    LET callbacks == s.channel_callbacks
    IN  SubscribeEach([s EXCEPT !.channel_callbacks = <<>>], order, callbacks)

Rpc(s, method, params, callback) ==
    LET cr == CreateRequest(s, RPC,
                  JDict("data" :> JDict(
                      "method" :> JStr(method)
                      @@ "params" :> IF Truthy(params) THEN params
                                     ELSE JDict(<<>>))))
        s1 == IF callback # None
              THEN [cr.st EXCEPT !.message_callbacks =
                                     Put(@, cr.request.id, callback)]
              ELSE cr.st
    IN  Send(s1, cr.request)

\* ------------------------------------------------------------- decimals
\* decimal.Decimal as its (sign, coefficient, exponent) triple.
Decimal(sign, coeff, exp) ==
    [t |-> "decimal", v |-> [sign |-> sign, int |-> coeff, exp |-> exp]]

Abs(n) == IF n < 0 THEN -n ELSE n

\* Decimal(int): sign and magnitude, exponent 0.
DecimalOfInt(n) == Decimal(IF n < 0 THEN 1 ELSE 0, Abs(n), 0)

\* Decimal.scaleb(other): the exponent moves by other (coefficients here
\* stay far below the 28 digits of the default context, so nothing rounds).
Scaleb(d, other) == Decimal(d.v.sign, d.v.int, d.v.exp + other)

\* mutant: the sign of the value is lost
IntOfDecimal_Unsigned(d) == d.v.int

\* int(Decimal) of a value whose exponent is 0.
IntOfDecimal(d) == IF d.v.sign = 1 THEN -d.v.int ELSE d.v.int

DecodeDecimal(encoded_decimal) ==
    Scaleb(DecimalOfInt(encoded_decimal.v["mantissa"].v),
           encoded_decimal.v["exponent"].v)

EncodeDecimal(value) ==
    LET exponent == value.v.exp
        mantissa == IntOfDecimal(Scaleb(value, -exponent))
    IN  JDict("mantissa" :> JInt(mantissa) @@ "exponent" :> JInt(exponent))

RECURSIVE DecodeResponse(_)
DecodeResponse(response) ==
    IF response.t = "dict"
    THEN IF "mantissa" \in DOMAIN response.v /\ "exponent" \in DOMAIN response.v
         THEN DecodeDecimal(response)
         ELSE JDict([key \in DOMAIN response.v |->
                        DecodeResponse(response.v[key])])
    ELSE IF response.t = "list"
    THEN \* the value returned for an item is discarded: an item is changed
         \* only through the in-place mutation of a mapping or a list
         JList([i \in DOMAIN response.v |->
                   LET item == response.v[i]
                   IN  IF item.t = "dict" /\ "mantissa" \in DOMAIN item.v
                                          /\ "exponent" \in DOMAIN item.v
                       THEN item
                       ELSE DecodeResponse(item)])
    ELSE response

\* ------------------------------------------------------------- login
EncodeHmacMessage(key, time) == <<"key=", key, ";", "time=", time>>

HmacSha256(secret, msg) == <<"hmac-sha256", secret, msg>>

\* callback(data): the call is recorded; a pending-call callback counts
\* against the request id it was registered for.
Called(s, kind, fn, arg, id) ==
    [s EXCEPT !.called = [kind |-> kind, fn |-> fn, arg |-> arg],
              !.invoked = IF kind = "message"
                          THEN [@ EXCEPT ![id] = @ + 1] ELSE @]

\* mutant: the code the server sent is not read
LoginErrorCode_Dropped(result) == JNone

\* result.get('value', {}).get('code'); "AttributeError" when the value is
\* not a mapping
LoginErrorCode(result) ==
    LET value == IF "value" \in DOMAIN result.v THEN result.v["value"]
                 ELSE JDict(<<>>)
    IN  IF IsDict(value) THEN Get(value, "code") ELSE JStr("AttributeError")

\* mutant: the result tag is not looked at
OnLogin_FlushOnErr(s, response) ==
    IF "error" \in DOMAIN response.v
    THEN Raise(s, "ZubrSDKError: An error occurred when logging in")
    ELSE IF "result" \notin DOMAIN response.v THEN Raise(s, "KeyError")
    ELSE SendDelayedRequests([s EXCEPT !.logged_in = TRUE,
                                       !.login_epoch = s.epoch])

OnLogin(s, response) ==
    IF "error" \in DOMAIN response.v
    THEN Raise(s, "ZubrSDKError: An error occurred when logging in")
    ELSE IF "result" \notin DOMAIN response.v THEN Raise(s, "KeyError")
    ELSE LET result == response.v["result"]
         IN  IF ~IsDict(result) THEN Raise(s, "TypeError")
             ELSE IF "tag" \notin DOMAIN result.v THEN Raise(s, "KeyError")
             ELSE IF result.v["tag"] = JStr("err")
             THEN IF LoginErrorCode(result) = JStr("AttributeError")
                  THEN Raise(s, "AttributeError")
                  ELSE RaiseCode(s, "ZubrSDKLoginError: Wrong credentials",
                                 LoginErrorCode(result))
             ELSE SendDelayedRequests(
                      [s EXCEPT !.logged_in = TRUE,
                                !.login_epoch = s.epoch])

\* mutant: without credentials the queue is left as it is
TryLogin_NoFlush(s, timestamp) ==
    IF ~HasCredentials
    THEN s
    ELSE LET auth_code == HmacSha256(api_secret,
                              EncodeHmacMessage(api_key, timestamp))
         IN  Rpc(s, LoginMethod,
                 JDict("apiKey" :> JStr(api_key)
                       @@ "time" :> JDict("seconds" :> JInt(timestamp)
                                          @@ "nanos" :> JInt(0))
                       @@ "hmacDigest" :> JStr(auth_code)),
                 OnLoginCallback)

TryLogin(s, timestamp) ==
    IF ~HasCredentials
    THEN SendDelayedRequests(s)
    ELSE LET auth_code == HmacSha256(api_secret,
                              EncodeHmacMessage(api_key, timestamp))
         IN  Rpc(s, LoginMethod,
                 JDict("apiKey" :> JStr(api_key)
                       @@ "time" :> JDict("seconds" :> JInt(timestamp)
                                          @@ "nanos" :> JInt(0))
                       @@ "hmacDigest" :> JStr(auth_code)),
                 OnLoginCallback)

\* mutant: the id counter restarts with every connection
OnOpen_ResetIds(s, timestamp) ==
    TryLogin([s EXCEPT !.ws_open = TRUE, !.message_id = 0], timestamp)

OnOpen(s, timestamp) == TryLogin([s EXCEPT !.ws_open = TRUE], timestamp)

\* mutant: an error nobody subscribed to is dropped
ServerError_Swallowed(s, data) ==
    IF ~IsDict(data.v["error"]) THEN Raise(s, "AttributeError")
    ELSE IF s.error_callback = None THEN s
    ELSE Called(s, "error", s.error_callback, data, 0)

\* the branch of _on_message for a frame with a top-level error
ServerError(s, data) ==
    IF ~IsDict(data.v["error"]) THEN Raise(s, "AttributeError")
    ELSE IF s.error_callback = None
    THEN RaiseCode(s, "ZubrSDKError: Server sent error",
                   Get(data.v["error"], "code"))
    ELSE Called(s, "error", s.error_callback, data, 0)

\* mutant: the error field is looked at before the id field
OnMessage_ErrorFirst(s, message) ==
    LET data == DecodeResponse(message)
    IN  IF ~IsDict(data) THEN Raise(s, "TypeError")
        ELSE IF "error" \in DOMAIN data.v
        THEN ServerError(s, data)
        ELSE IF "id" \in DOMAIN data.v
        THEN LET id == data.v["id"].v
                 callback == IF id \in DOMAIN s.message_callbacks
                             THEN s.message_callbacks[id] ELSE None
                 s1 == [s EXCEPT !.message_callbacks = Pop(@, id)]
             IN  IF callback = None THEN s1
                 ELSE IF callback = OnLoginCallback
                 THEN OnLogin(Called(s1, "message", callback, data, id), data)
                 ELSE Called(s1, "message", callback, data, id)
        ELSE IF "result" \notin DOMAIN data.v THEN Raise(s, "KeyError")
        ELSE IF ~IsDict(data.v["result"]) THEN Raise(s, "TypeError")
        ELSE IF "channel" \in DOMAIN data.v["result"].v
        THEN LET result == data.v["result"]
                 channel_key == result.v["channel"].v
             IN  IF "data" \notin DOMAIN result.v THEN Raise(s, "KeyError")
                 ELSE IF channel_key \in DOMAIN s.channel_callbacks
                 THEN Called(s, "channel", s.channel_callbacks[channel_key],
                             result.v["data"], 0)
                 ELSE s
        ELSE IF default_callback # None
        THEN Called(s, "default", default_callback, data, 0)
        ELSE s

OnMessage(s, message) ==
    LET data == DecodeResponse(message)
    IN  IF ~IsDict(data) THEN Raise(s, "TypeError")
        ELSE IF "id" \in DOMAIN data.v
        THEN LET id == data.v["id"].v
                 callback == IF id \in DOMAIN s.message_callbacks
                             THEN s.message_callbacks[id] ELSE None
                 s1 == [s EXCEPT !.message_callbacks = Pop(@, id)]
             IN  IF callback = None THEN s1
                 ELSE IF callback = OnLoginCallback
                 THEN OnLogin(Called(s1, "message", callback, data, id), data)
                 ELSE Called(s1, "message", callback, data, id)
        ELSE IF "error" \in DOMAIN data.v
        THEN ServerError(s, data)
        ELSE IF "result" \notin DOMAIN data.v THEN Raise(s, "KeyError")
        ELSE IF ~IsDict(data.v["result"]) THEN Raise(s, "TypeError")
        ELSE IF "channel" \in DOMAIN data.v["result"].v
        THEN LET result == data.v["result"]
                 channel_key == result.v["channel"].v
             IN  IF "data" \notin DOMAIN result.v THEN Raise(s, "KeyError")
                 ELSE IF channel_key \in DOMAIN s.channel_callbacks
                 THEN Called(s, "channel", s.channel_callbacks[channel_key],
                             result.v["data"], 0)
                 ELSE s
        ELSE IF default_callback # None
        THEN Called(s, "default", default_callback, data, 0)
        ELSE s

\* mutant: only the key is tested
LoginRequired_KeyOnly(s, result) ==
    IF api_key = None
    THEN Raise(s, "ZubrSDKError: Login required to perform this operation")
    ELSE result

\* the decorator of the order-management methods
LoginRequired(s, result) ==
    IF ~HasCredentials
    THEN Raise(s, "ZubrSDKError: Login required to perform this operation")
    ELSE result

PlaceOrder(s, price, side, callback) ==
    LoginRequired(s,
        Rpc(s, "placeOrder",
            JDict("price" :> EncodeDecimal(price) @@ "side" :> JStr(side)),
            callback))

ReplaceOrder(s, price, callback) ==
    LoginRequired(s,
        Rpc(s, "replaceOrder", JDict("price" :> EncodeDecimal(price)),
            callback))

Buy(s, price, callback) ==
    LoginRequired(s, PlaceOrder(s, price, "BUY", callback))

Sell(s, price, callback) ==
    LoginRequired(s, PlaceOrder(s, price, "SELL", callback))

CancelOrder(s, order_id, callback) ==
    LoginRequired(s, Rpc(s, "cancelOrder", order_id, callback))

GetCandlesRange(s, callback) ==
    Rpc(s, "getCandlesRange", JDict("instrumentId" :> JInt(1)), callback)

\* ------------------------------------------------------- inputs
Prices == {Decimal(0, 10038, -1)}
Times == {1600000000}
ApiMethods == {"buy"}

Push(channel, payload) ==
    JDict("channel" :> JStr(channel) @@ "data" :> payload)
TagOk == JDict("tag" :> JStr("ok"))
TagErr == JDict("tag" :> JStr("err")
                @@ "value" :> JDict("code" :> JInt(401)))
ErrorBody == JDict("code" :> JInt(500))
Payload == JStr("payload")

\* inbound frames of the session scenario: the answers to a request (a
\* result tagged ok or err, or an error), a channel push, a bare error
SessionMessages ==
    {JDict("id" :> JInt(i) @@ "result" :> r) : i \in 1..MaxId,
                                               r \in {TagOk, TagErr}}
    \cup {JDict("id" :> JInt(i) @@ "error" :> ErrorBody) : i \in 1..MaxId}
    \cup {JDict("result" :> Push("orders", Payload)),
          JDict("error" :> ErrorBody)}

\* inbound frames of the router scenario: every combination of the id,
\* error and result fields, the result channel-shaped or not
RouterMessages ==
    {JDict("id" :> JInt(i) @@ "result" :> TagOk) : i \in 1..MaxId}
    \cup {JDict("id" :> JInt(i) @@ "error" :> ErrorBody
                @@ "result" :> Push("orders", Payload)) : i \in 1..MaxId}
    \cup {JDict("result" :> r) :
             r \in {TagOk} \cup {Push(c, Payload) : c \in Channels}}
    \cup {JDict("error" :> ErrorBody),
          JDict("error" :> ErrorBody @@ "result" :> Push("orders", Payload)),
          JDict("tag" :> JStr("ok"))}

\* ------------------------------------------------------- the state machine
\* the last operation, the frame it received (on_message), the exception
\* it raised and the callback it invoked
Outcome(op, msg, s) ==
    [op |-> op, msg |-> msg, raised |-> s.raised, code |-> s.code,
     called |-> s.called]

Apply(s, op, msg) ==
    /\ logged_in' = s.logged_in
    /\ message_id' = s.message_id
    /\ channel_callbacks' = s.channel_callbacks
    /\ message_callbacks' = s.message_callbacks
    /\ error_callback' = s.error_callback
    /\ delayed_requests' = s.delayed_requests
    /\ ws_open' = s.ws_open
    /\ connected' = s.connected
    /\ wire' = s.wire
    /\ epoch' = s.epoch
    /\ login_epoch' = s.login_epoch
    /\ login_mark' = s.login_mark
    /\ invoked' = s.invoked
    /\ ev' = Outcome(op, msg, s)
    /\ UNCHANGED <<api_key, api_secret, default_callback, argument, returned>>

\* ZubrSDK(api_key, api_secret, default_callback=...)
Construct(credentials, defaults) ==
    /\ \E c \in credentials : api_key = c[1] /\ api_secret = c[2]
    /\ default_callback \in defaults
    /\ logged_in = FALSE
    /\ message_id = 0
    /\ channel_callbacks = <<>>
    /\ message_callbacks = <<>>
    /\ error_callback = None
    /\ delayed_requests = <<>>
    /\ ws_open = FALSE
    /\ connected = FALSE
    /\ wire = <<>>
    /\ epoch = 0
    /\ login_epoch = 0
    /\ login_mark = 0
    /\ invoked = [i \in 1..MaxId |-> 0]
    /\ ev = [op |-> "__init__", msg |-> NoMsg,
             raised |-> None, code |-> JNone, called |-> NoCall]

\* no codec call is in progress
NoCodec == argument = NoMsg /\ returned = NoMsg

Init ==
    /\ Construct({<<None, None>>, <<"KEY", None>>, <<"KEY", "5ec2e7">>},
                 {None})
    /\ NoCodec

\* subscribe_orders, subscribe_orderbook, ...: _subscribe on a fixed channel
DoSubscribe(channel, callback) ==
    /\ message_id < MaxId \/ channel \in DOMAIN channel_callbacks
    /\ LET s == Subscribe(Self, channel, callback)
       IN  Apply(s, "subscribe", NoMsg)

DoSubscribeErrors(callback) ==
    LET s == [Self EXCEPT !.error_callback = callback]
    IN  Apply(s, "subscribe_errors", NoMsg)

ApiCall(s, method, price, callback) ==
    CASE method = "place_order" -> PlaceOrder(s, price, "BUY", callback)
      [] method = "buy" -> Buy(s, price, callback)
      [] method = "sell" -> Sell(s, price, callback)
      [] method = "replace_order" -> ReplaceOrder(s, price, callback)
      [] method = "cancel_order" -> CancelOrder(s, JStr("123456789"), callback)
      [] method = "get_candles_range" -> GetCandlesRange(s, callback)

DoApi(method, price, callback) ==
    /\ message_id < MaxId
    /\ LET s == ApiCall(Self, method, price, callback)
       IN  Apply(s, method, NoMsg)

\* the transport reports the socket open: _on_open
DoOnOpen(timestamp) ==
    /\ ~connected
    /\ epoch < MaxOpens
    /\ HasCredentials => message_id < MaxId
    /\ LET s == OnOpen([Self EXCEPT !.connected = TRUE, !.epoch = @ + 1],
                       timestamp)
       IN  Apply(s, "on_open", NoMsg)

\* the socket closes: the client registers no handler for it
DoOnClose ==
    /\ connected
    /\ LET s == [Self EXCEPT !.connected = FALSE]
       IN  Apply(s, "on_close", NoMsg)

\* the transport delivers a frame: _on_message.  The server answers only
\* requests that exist: a frame carries no id that was never allocated.
DoOnMessage(message) ==
    /\ connected
    /\ "id" \in DOMAIN message.v => message.v["id"].v <= message_id
    /\ LET s == OnMessage(Self, message)
       IN  Apply(s, "on_message", message)

\* Session scenario: both credential settings, requests with a callback,
\* the login handshake, reconnects; no error callback is registered.
Next ==
    \/ \E c \in Channels : DoSubscribe(c, "cb1")
    \/ \E m \in ApiMethods, p \in Prices : DoApi(m, p, "cb1")
    \/ \E t \in Times : DoOnOpen(t)
    \/ DoOnClose
    \/ \E msg \in SessionMessages : DoOnMessage(msg)

Spec == Init /\ [][Next]_vars

\* Router scenario: with and without a default callback, requests with a
\* callback, two callbacks per channel, every shape of inbound frame.
InitRouter ==
    /\ Construct({<<"KEY", "5ec2e7">>}, {None, "default_cb"})
    /\ NoCodec

NextRouter ==
    \/ \E cb \in Callbacks : DoSubscribe("orders", cb)
    \/ DoSubscribeErrors("error_cb")
    \/ \E cb \in {"cb1"} :
           DoApi("get_candles_range", Decimal(0, 10038, -1), cb)
    \/ \E t \in Times : DoOnOpen(t)
    \/ DoOnClose
    \/ \E msg \in RouterMessages : DoOnMessage(msg)

SpecRouter == InitRouter /\ [][NextRouter]_vars

\* the orders in which a dict can hand out the keys S
Orders(S) ==
    {q \in [1..Cardinality(S) -> S] :
        \A i, j \in DOMAIN q : i # j => q[i] # q[j]}

\* _resubscribe(): called while the id counter is within its bound; the
\* replay itself may take the counter past it, one id per channel
DoResubscribe ==
    /\ message_id <= MaxId
    /\ \E order \in Orders(DOMAIN channel_callbacks) :
           LET s == Resubscribe(Self, order)
           IN  Apply(s, "_resubscribe", NoMsg)

OrderMethods ==
    {"place_order", "buy", "sell", "replace_order", "cancel_order"}

\* Calls scenario: every public method and _resubscribe, called on clients
\* built with both, one or none of the credentials, before and after the
\* socket opens.
InitCalls ==
    /\ Construct({<<None, None>>, <<"KEY", None>>, <<None, "5ec2e7">>,
                  <<"KEY", "5ec2e7">>}, {None})
    /\ NoCodec

NextCalls ==
    \/ \E c \in Channels, cb \in Callbacks : DoSubscribe(c, cb)
    \/ \E m \in OrderMethods \cup {"get_candles_range"}, p \in Prices :
           DoApi(m, p, "cb1")
    \/ DoResubscribe
    \/ \E t \in Times : DoOnOpen(t)

SpecCalls == InitCalls /\ [][NextCalls]_vars

\* Codec scenario: _encode_decimal on a decimal, _decode_decimal on what it
\* returned, _decode_response on a parsed JSON structure.
\* the decimal mantissa * 10^exponent, as Decimal("...") builds it
DecimalOf(mantissa, exponent) ==
    Decimal(IF mantissa < 0 THEN 1 ELSE 0, Abs(mantissa), exponent)

Decimals ==
    {DecimalOf(m, e) : m \in -MaxMantissa..MaxMantissa,
                       e \in -MaxExponent..MaxExponent} \cup Prices

Encoded == JDict("mantissa" :> JInt(-15) @@ "exponent" :> JInt(-1))

RECURSIVE Trees(_)
\* parsed JSON of nesting depth at most depth: a number, an encoded decimal,
\* a mapping with one key, a list of one or two items
Trees(depth) ==
    IF depth = 0 THEN {JInt(7), Encoded}
    ELSE LET sub == Trees(depth - 1)
         IN  {JInt(7), Encoded}
             \cup {JDict("price" :> x) : x \in sub}
             \cup {JList(<<x>>) : x \in sub}
             \cup {JList(<<x, y>>) : x \in sub, y \in sub}

InitCodec ==
    /\ Construct({<<None, None>>}, {None})
    /\ argument \in Decimals \cup Trees(MaxDepth)
    /\ returned = NoMsg

CodecCall(op, result) ==
    /\ returned' = result
    /\ ev' = [ev EXCEPT !.op = op]
    /\ UNCHANGED <<sdk, connected, wire, epoch, login_epoch, login_mark,
                   invoked, argument>>

DoEncodeDecimal ==
    /\ ev.op = "__init__"
    /\ argument.t = "decimal"
    /\ CodecCall("_encode_decimal", EncodeDecimal(argument))

DoDecodeDecimal ==
    /\ ev.op = "_encode_decimal"
    /\ CodecCall("_decode_decimal", DecodeDecimal(returned))

DoDecodeResponse ==
    /\ ev.op = "__init__"
    /\ argument.t # "decimal"
    /\ CodecCall("_decode_response", DecodeResponse(argument))

NextCodec == DoEncodeDecimal \/ DoDecodeDecimal \/ DoDecodeResponse

SpecCodec == InitCodec /\ [][NextCodec]_vars

\* ------------------------------------------------------- properties
HasId(msg) == IsDict(msg) /\ "id" \in DOMAIN msg.v
IdOf(msg) == msg.v["id"].v
ClientAndWire == <<sdk, wire, invoked>>

IsLogin(frame) ==
    /\ FrameMethod(frame) = RPC
    /\ FrameParams(frame).v["data"].v["method"] = JStr(LoginMethod)
IsSubscribe(frame, channel) ==
    /\ FrameMethod(frame) = CHANNEL
    /\ FrameParams(frame).v["channel"] = JStr(channel)

WireIds == {FrameId(wire[k].frame) : k \in DOMAIN wire}
Frames(w) == [k \in DOMAIN w |-> w[k].frame]

RequestOps == {"subscribe"} \cup ApiMethods
\* the last operation created a request
IssuedRequest == ev.op \in RequestOps /\ ev.raised = None
\* ... and that request is the newest entry of the queue, not on the wire
NewestIsQueued ==
    /\ delayed_requests # <<>>
    /\ FrameId(delayed_requests[Len(delayed_requests)]) = message_id
    /\ message_id \notin WireIds

\* C1: with credentials configured, a request other than the login that is
\* issued after on_open and before the login success has been processed is
\* appended to the queue and not handed to the transport; no frame but the
\* login is handed to the transport in Open/Unauthenticated.
C1_QueuedUntilLogin ==
    /\ (IssuedRequest /\ Session(Self) = "Open/Unauthenticated")
           => NewestIsQueued
    /\ \A k \in DOMAIN wire :
           ~IsLogin(wire[k].frame) => wire[k].sess # "Open/Unauthenticated"

LoginSuccess(msg) ==
    /\ HasId(msg)
    /\ "error" \notin DOMAIN msg.v
    /\ "result" \in DOMAIN msg.v
    /\ "tag" \in DOMAIN msg.v["result"].v
    /\ msg.v["result"].v["tag"] # JStr("err")

\* C2: with credentials configured, on_open hands exactly one frame to the
\* transport, the login RPC, and leaves the queue alone; a queued request
\* reaches the transport only in the on_message step that processes an
\* answer to the login with no error and a result tag other than "err".
C2_Step ==
    HasCredentials =>
        /\ ev'.op = "on_open" =>
               /\ Len(wire') = Len(wire) + 1
               /\ SubSeq(wire', 1, Len(wire)) = wire
               /\ IsLogin(wire'[Len(wire')].frame)
               /\ delayed_requests' = delayed_requests
        /\ (\E k \in DOMAIN delayed_requests :
                \E j \in DOMAIN wire' : wire'[j].frame = delayed_requests[k])
               => /\ ev'.op = "on_message"
                  /\ LoginSuccess(ev'.msg)
                  /\ IdOf(ev'.msg) \in DOMAIN message_callbacks
                  /\ message_callbacks[IdOf(ev'.msg)] = OnLoginCallback

\* C2: every step keeps the login first and the queue behind the login success
C2_LoginBeforeQueue == [][C2_Step]_vars

\* a queued request was released after the login: it follows the login
\* frame on the wire although its id is smaller
C2_Witness ==
    /\ HasCredentials
    /\ \E j, k \in DOMAIN wire :
          /\ j < k
          /\ IsLogin(wire[j].frame)
          /\ FrameId(wire[k].frame) < FrameId(wire[j].frame)

\* C3: a request created while the socket is not marked open is appended to
\* the queue; the queue changes only by such an append or by the flush; the
\* flush hands exactly the queued frames to the transport, in queue order
\* (increasing ids), nothing after them, and leaves the queue empty.
C3_Append ==
    /\ message_id' = message_id + 1
    /\ delayed_requests' # <<>>
    /\ delayed_requests' =
           Append(delayed_requests, delayed_requests'[Len(delayed_requests')])
    /\ FrameId(delayed_requests'[Len(delayed_requests')]) = message_id'
    /\ wire' = wire

C3_Flush ==
    /\ delayed_requests' = <<>>
    /\ Frames(wire') = Frames(wire) \o delayed_requests
    /\ \A i, j \in DOMAIN delayed_requests :
           i < j => FrameId(delayed_requests[i]) < FrameId(delayed_requests[j])

C3_Step ==
    /\ (message_id' # message_id /\ ~ws_open') => C3_Append
    /\ delayed_requests' # delayed_requests => (C3_Append \/ C3_Flush)

ConnectionCompleted ==
    IF HasCredentials
    THEN /\ ev.op = "on_message"
         /\ ev.called.fn = OnLoginCallback
         /\ ev.raised = None
    ELSE ev.op = "on_open"

\* C4: when a reconnection completes, exactly one subscribe request per
\* registered channel has been handed to the transport since authentication
\* completed (since on_open without credentials).
C4_ResubscribeOnReconnect ==
    (ConnectionCompleted /\ epoch >= 2) =>
        \A c \in DOMAIN channel_callbacks :
            Cardinality({k \in (login_mark + 1)..Len(wire) :
                            IsSubscribe(wire[k].frame, c)}) = 1

\* C5: a request issued while the socket is closed is appended to the queue
\* and not handed to the transport.
C5_QueuedWhileDisconnected ==
    (IssuedRequest /\ ~connected) => NewestIsQueued

\* C6: every request created so far is either exactly once in the queue or
\* was handed exactly once to the transport while the socket was open.
C6_NoneLostNoneTwice ==
    \A i \in 1..message_id :
        Cardinality({k \in DOMAIN delayed_requests :
                        FrameId(delayed_requests[k]) = i})
        + Cardinality({k \in DOMAIN wire :
                          /\ FrameId(wire[k].frame) = i
                          /\ wire[k].sess # "Disconnected"}) = 1

\* C7: a pending-call callback is invoked at most once per request id.  The
\* first response carrying a pending id removes the entry and invokes the
\* callback once with the full message; a response whose id is not pending
\* invokes no callback and changes nothing.
C7_Step ==
    /\ \A i \in 1..MaxId : invoked'[i] <= 1
    /\ (ev'.op = "on_message" /\ HasId(ev'.msg)) =>
          IF IdOf(ev'.msg) \in DOMAIN message_callbacks
          THEN /\ IdOf(ev'.msg) \notin DOMAIN message_callbacks'
               /\ invoked'[IdOf(ev'.msg)] = invoked[IdOf(ev'.msg)] + 1
               /\ ev'.called = [kind |-> "message",
                                fn |-> message_callbacks[IdOf(ev'.msg)],
                                arg |-> ev'.msg]
          ELSE /\ UNCHANGED ClientAndWire
               /\ ev'.called = NoCall
               /\ ev'.raised = None

\* C7: every step invokes a pending-call callback at most once per id
C7_AtMostOnce == [][C7_Step]_vars

\* a response found nothing pending for an id whose callback already ran
C7_Witness ==
    /\ ev.op = "on_message"
    /\ HasId(ev.msg)
    /\ invoked[IdOf(ev.msg)] = 1
    /\ ev.called = NoCall

\* C8: a frame with an id field is handled by the pending-call step only:
\* no channel, error or default callback runs and the uncaught server error
\* is not raised, whatever else the frame carries.
C8_IdWins ==
    (ev.op = "on_message" /\ HasId(ev.msg)) =>
        /\ ev.called.kind \in {None, "message"}
        /\ ev.raised # "ZubrSDKError: Server sent error"

\* a frame with id, error and a push for a subscribed channel was routed
\* with error and default callbacks installed
C8_Witness ==
    /\ ev.op = "on_message"
    /\ HasId(ev.msg)
    /\ "error" \in DOMAIN ev.msg.v
    /\ "result" \in DOMAIN ev.msg.v
    /\ "channel" \in DOMAIN ev.msg.v["result"].v
    /\ ev.msg.v["result"].v["channel"].v \in DOMAIN channel_callbacks
    /\ error_callback # None
    /\ default_callback # None

\* C9: subscribing to a channel that is already registered raises the
\* already-subscribed error and changes nothing: same callback bound, no
\* id consumed, nothing transmitted or queued.
C9_Step ==
    ev'.op = "subscribe" =>
        \A c \in DOMAIN channel_callbacks, cb \in Callbacks :
            DoSubscribe(c, cb) =>
                /\ ev'.raised = "AlreadySubscribed"
                /\ UNCHANGED ClientAndWire

\* C9: every duplicate subscribe raises and changes nothing
C9_AlreadySubscribed == [][C9_Step]_vars

C9_Witness ==
    /\ ev.op = "subscribe"
    /\ ev.raised = "AlreadySubscribed"
    /\ "orders" \in DOMAIN channel_callbacks

\* C10: ids are allocated 1, 2, 3, ...: every step leaves the counter alone
\* or raises it by one, and the requests created so far (queued or handed
\* to the transport) carry exactly the ids 1..message_id, each once.
C10_Step ==
    /\ message_id' \in {message_id, message_id + 1}
    /\ {FrameId(delayed_requests'[k]) : k \in DOMAIN delayed_requests'}
         \cup {FrameId(wire'[k].frame) : k \in DOMAIN wire'} = 1..message_id'
    /\ Len(delayed_requests') + Len(wire') = message_id'

\* C10: every step keeps the ids sequential, never reset or reused
C10_SequentialIds == [][C10_Step]_vars

\* ids kept counting across a reconnect
C10_Witness ==
    /\ epoch = 2
    /\ message_id = MaxId
    /\ \E k \in DOMAIN wire : IsLogin(wire[k].frame) /\ FrameId(wire[k].frame) = MaxId

\* the frame answers the pending login with a result tagged "err"
LoginRejected(msg) ==
    /\ HasId(msg)
    /\ IdOf(msg) \in DOMAIN message_callbacks
    /\ message_callbacks[IdOf(msg)] = OnLoginCallback
    /\ "error" \notin DOMAIN msg.v
    /\ "result" \in DOMAIN msg.v
    /\ "tag" \in DOMAIN msg.v["result"].v
    /\ msg.v["result"].v["tag"] = JStr("err")

LoginFrames(w) == Cardinality({k \in DOMAIN w : IsLogin(w[k].frame)})

\* C11: a login response whose result is tagged "err" raises the login
\* error with the code the server sent, leaves the authenticated flag and
\* the login history as they were, leaves the queue and the wire untouched;
\* no step other than on_open hands a login RPC to the transport.
C11_Step ==
    /\ (ev'.op = "on_message" /\ LoginRejected(ev'.msg)) =>
           /\ ev'.raised = "ZubrSDKLoginError: Wrong credentials"
           /\ ev'.code = ev'.msg.v["result"].v["value"].v["code"]
           /\ logged_in' = logged_in
           /\ login_epoch' = login_epoch
           /\ delayed_requests' = delayed_requests
           /\ wire' = wire
    /\ ev'.op # "on_open" => LoginFrames(wire') = LoginFrames(wire)

\* C11: every rejected login raises and changes nothing
C11_LoginRejected == [][C11_Step]_vars

\* the login was rejected while requests were waiting in the queue
C11_Witness ==
    /\ ev.op = "on_message"
    /\ ev.raised = "ZubrSDKLoginError: Wrong credentials"
    /\ ev.code = JInt(401)
    /\ ~logged_in
    /\ delayed_requests # <<>>

\* C12: without credentials on_open creates no request and hands exactly
\* the queued frames to the transport, in the order they were issued, no
\* login among them, leaving the queue empty; a request issued while the
\* socket is open is handed to the transport in the call that issues it.
C12_Step ==
    ~HasCredentials =>
        /\ ev'.op = "on_open" =>
               /\ message_id' = message_id
               /\ Frames(wire') = Frames(wire) \o delayed_requests
               /\ delayed_requests' = <<>>
               /\ \A k \in DOMAIN wire' : ~IsLogin(wire'[k].frame)
               /\ \A i, j \in DOMAIN delayed_requests :
                      i < j => FrameId(delayed_requests[i])
                                   < FrameId(delayed_requests[j])
        /\ (ev'.op \in RequestOps /\ ev'.raised = None
                /\ ws_open /\ connected) =>
               /\ Len(wire') = Len(wire) + 1
               /\ SubSeq(wire', 1, Len(wire)) = wire
               /\ FrameId(wire'[Len(wire')].frame) = message_id'
               /\ wire'[Len(wire')].sess = "Open"
               /\ delayed_requests' = delayed_requests

\* C12: every anonymous on_open flushes at once, later requests go straight out
C12_AnonymousOpen == [][C12_Step]_vars

\* an anonymous client opened with two requests waiting and sent both
C12_Witness ==
    /\ ~HasCredentials
    /\ ev.op = "on_open"
    /\ epoch = 1
    /\ delayed_requests = <<>>
    /\ Len(wire) = 2
    /\ FrameId(wire[1].frame) = 1
    /\ FrameId(wire[2].frame) = 2

\* C13: while the key or the secret is missing, each order-management
\* method raises the login-required error and changes nothing (no id, no
\* pending call, nothing queued or handed to the transport);
\* get_candles_range and subscribe do not raise it and create their request.
C13_Step ==
    ~HasCredentials =>
        /\ ev'.op \in OrderMethods =>
               /\ ev'.raised =
                      "ZubrSDKError: Login required to perform this operation"
               /\ UNCHANGED ClientAndWire
        /\ ev'.op = "get_candles_range" =>
               /\ ev'.raised = None
               /\ message_id' = message_id + 1
               /\ message_id' \in DOMAIN message_callbacks'
        /\ ev'.op = "subscribe" =>
               ev'.raised #
                   "ZubrSDKError: Login required to perform this operation"

\* C13: every order-management call without credentials is refused whole
C13_LoginRequired == [][C13_Step]_vars

\* an order call was refused on an open socket with the secret missing
C13_Witness ==
    /\ api_key # None
    /\ api_secret = None
    /\ ws_open
    /\ ev.op \in OrderMethods
    /\ ev.raised = "ZubrSDKError: Login required to perform this operation"

\* the frames the step created: handed to the transport or queued
Emitted ==
    SubSeq(Frames(wire'), Len(wire) + 1, Len(wire'))
        \o SubSeq(delayed_requests', Len(delayed_requests) + 1,
                  Len(delayed_requests'))

\* C16: _resubscribe returns with the channel-to-callback mapping it found,
\* having created exactly one CHANNEL request per registered channel, each
\* with an id above every id issued before the call, and nothing else.
C16_Step ==
    ev'.op = "_resubscribe" =>
        /\ ev'.raised = None
        /\ channel_callbacks' = channel_callbacks
        /\ SubSeq(wire', 1, Len(wire)) = wire
        /\ SubSeq(delayed_requests', 1, Len(delayed_requests))
               = delayed_requests
        /\ Len(Emitted) = Cardinality(DOMAIN channel_callbacks)
        /\ \A c \in DOMAIN channel_callbacks :
               Cardinality({k \in DOMAIN Emitted :
                               IsSubscribe(Emitted[k], c)}) = 1
        /\ \A k \in DOMAIN Emitted : FrameId(Emitted[k]) > message_id

\* C16: every _resubscribe replays the registry and leaves it as it was
C16_NonDestructive == [][C16_Step]_vars

\* two channels with different callbacks were replayed
C16_Witness ==
    /\ ev.op = "_resubscribe"
    /\ DOMAIN channel_callbacks = Channels
    /\ channel_callbacks["orders"] # channel_callbacks["orderbook"]
    /\ message_id = 4

\* C14: a frame with no id and a top-level error invokes the error callback
\* with the (decoded) frame when one is registered and raises the server
\* error with the code of the frame when none is; either way no other
\* callback runs and registries, queue and wire stay as they were.
C14_Step ==
    (ev'.op = "on_message" /\ ~HasId(ev'.msg) /\ "error" \in DOMAIN ev'.msg.v)
        => /\ UNCHANGED ClientAndWire
           /\ IF error_callback # None
              THEN /\ ev'.called = [kind |-> "error", fn |-> error_callback,
                                    arg |-> DecodeResponse(ev'.msg)]
                   /\ ev'.raised = None
              ELSE /\ ev'.raised = "ZubrSDKError: Server sent error"
                   /\ ev'.code = ev'.msg.v["error"].v["code"]
                   /\ ev'.called = NoCall

\* C14: every bare error goes to the error callback or is raised
C14_ErrorRouting == [][C14_Step]_vars

\* an error that also carried a push for a subscribed channel went to the
\* error callback although a default callback was configured
C14_Witness ==
    /\ ev.op = "on_message"
    /\ ~HasId(ev.msg)
    /\ ev.called.kind = "error"
    /\ "result" \in DOMAIN ev.msg.v
    /\ ev.msg.v["result"].v["channel"].v \in DOMAIN channel_callbacks
    /\ default_callback # None

\* C15: _encode_decimal returns the integer pair made of the signed
\* coefficient and the decimal's own exponent ("1003.8" gives 10038, -1),
\* and _decode_decimal of that pair is the decimal that was encoded.
C15_RoundTrip ==
    /\ ev.op = "_encode_decimal" =>
           /\ returned = JDict(
                  "mantissa" :> JInt(IF argument.v.sign = 1
                                     THEN -argument.v.int ELSE argument.v.int)
                  @@ "exponent" :> JInt(argument.v.exp))
           /\ argument = Decimal(0, 10038, -1) =>
                  returned = JDict("mantissa" :> JInt(10038)
                                   @@ "exponent" :> JInt(-1))
    /\ ev.op = "_decode_decimal" => returned = argument

\* a negative mantissa with a negative exponent came back from the round trip
C15_Witness ==
    /\ ev.op = "_decode_decimal"
    /\ argument = DecimalOf(-5, -2)
    /\ returned = Decimal(1, 5, -2)

RECURSIVE Rewritten(_)
\* the structure with every mantissa/exponent mapping replaced by its decimal
Rewritten(tree) ==
    IF tree.t = "dict"
    THEN IF {"mantissa", "exponent"} \subseteq DOMAIN tree.v
         THEN DecimalOf(tree.v["mantissa"].v, tree.v["exponent"].v)
         ELSE JDict([key \in DOMAIN tree.v |-> Rewritten(tree.v[key])])
    ELSE IF tree.t = "list"
    THEN JList([i \in DOMAIN tree.v |-> Rewritten(tree.v[i])])
    ELSE tree

\* C20: _decode_response returns its argument with every mantissa/exponent
\* mapping, at any depth, under a key or in a list, replaced by the decoded
\* decimal and everything else unchanged.
C20_RewriteEverywhere ==
    ev.op = "_decode_response" => returned = Rewritten(argument)

\* C17: with credentials, the authenticated flag is set only while the
\* socket is open and the login of the current connection has succeeded;
\* in particular it is clear right after every on_open.
C17_AuthenticatedPerConnection ==
    HasCredentials =>
        /\ logged_in => (connected /\ login_epoch = epoch)
        /\ ev.op = "on_open" => ~logged_in

\* C18: the requests other than the login reach the transport in the order
\* they were issued: their ids increase along the wire.
C18_TransmitInIssueOrder ==
    \A j, k \in DOMAIN wire :
        (j < k /\ ~IsLogin(wire[j].frame) /\ ~IsLogin(wire[k].frame))
            => FrameId(wire[j].frame) < FrameId(wire[k].frame)

\* the frame has a result that is a mapping with a channel key
HasChannel(msg) ==
    /\ "result" \in DOMAIN msg.v
    /\ IsDict(msg.v["result"])
    /\ "channel" \in DOMAIN msg.v["result"].v

\* C19: a frame with no id, no top-level error and no result.channel (a
\* frame with no result included) raises nothing; it is passed to the
\* default callback when one is configured and dropped otherwise.
C19_DefaultOrDrop ==
    (ev.op = "on_message" /\ ~HasId(ev.msg) /\ "error" \notin DOMAIN ev.msg.v
         /\ ~HasChannel(ev.msg))
        => /\ ev.raised = None
           /\ ev.called = IF default_callback # None
                          THEN [kind |-> "default", fn |-> default_callback,
                                arg |-> DecodeResponse(ev.msg)]
                          ELSE NoCall

====
